---- MODULE Spec2Model ----
(***************************************************************************)
(* A model of the CRM mutations of crm/schema.py over the tables of         *)
(* crm/models.py: createCustomer, bulkCreateCustomers, createProduct,       *)
(* createOrder and updateLowStockProducts.                                  *)
(*                                                                          *)
(* Money is counted in cents (a Decimal with two places is an integer       *)
(* number of cents).  A nullable field is a sequence of length 0 or 1.      *)
(* A phone number is a sequence of one-character strings.                   *)
(***************************************************************************)
EXTENDS Integers, Sequences, FiniteSets, TLC

VARIABLES
    customers,   \* rows of Customer
    products,    \* rows of Product
    orders,      \* rows of Order
    orderItems,  \* rows of OrderItem
    call,        \* the last mutation called, with its arguments
    resp,        \* what that call returned
    pre,         \* the tables as they were when that call started
    procs        \* requests in flight (concurrent customer creation only)

vars == <<customers, products, orders, orderItems, call, resp, pre, procs>>

----------------------------------------------------------------------------
(* Bounds of the model *)

MaxOrders == 1
MaxIdsLen == 2
MaxBulkRows == 2
MaxPhoneDigits == 17
MaxHistoryOrders == 2

(* Program constants *)

LowStockThreshold == 10
MaxInt == 2147483647
PhonePlusMin == 10
PhonePlusMax == 15

None == <<>>
Some(x) == <<x>>

Now == "now"

\* what \d matches in a str pattern: the ASCII digits and every other decimal
\* digit of Unicode, of which ARABIC-INDIC DIGIT ONE stands here
Digits == {"0", "1", "2", "3", "4", "5", "6", "7", "8", "9", "U+0661"}

----------------------------------------------------------------------------
(* Inputs *)

PhonePlus10 == <<"+", "1", "2", "3", "4", "5", "6", "7", "8", "9", "0">>
PhoneShort == <<"1", "2", "3", "4", "5">>

WellFormedEmails == {"a@x.com", "b@x.com"}
CustomerInputs ==
    {[name |-> "Ann", email |-> "a@x.com", phone |-> <<>>],
     [name |-> "Ann", email |-> "a@x.com", phone |-> PhoneShort],
     [name |-> "Bob", email |-> "b@x.com", phone |-> PhonePlus10],
     [name |-> "Bob", email |-> "bad", phone |-> <<>>],
     [name |-> "", email |-> "b@x.com", phone |-> PhoneShort]}

ProductNames == {"P", "Q"}

\* prices are counted in hundredths, the two decimal places of Product.price
ProductInputs ==
    {[name |-> "P", price |-> 3, stock |-> None],
     [name |-> "P", price |-> 5, stock |-> Some(3)],
     [name |-> "Q", price |-> 5, stock |-> None],
     [name |-> "Q", price |-> 3, stock |-> Some(3)],
     [name |-> "P", price |-> 0, stock |-> Some(3)],
     [name |-> "Q", price |-> 1, stock |-> None],
     [name |-> "Q", price |-> 5, stock |-> Some(-1)]}

RestockInputs == {-1, 0, 10, MaxInt}

\* the ids the rows get; an id is invalid until its row is inserted
CustomerIdInputs == 1 .. Cardinality(WellFormedEmails)
ProductIdInputs == 1 .. Cardinality(ProductNames)

SeqsUpTo(S, n) == UNION {[1 .. k -> S] : k \in 0 .. n}

OrderDateInputs == {None, Some("t1")}

OrderInputs ==
    [customer_id : CustomerIdInputs,
     product_ids : SeqsUpTo(ProductIdInputs, MaxIdsLen),
     order_date : OrderDateInputs]

BulkRowInputs ==
    {[name |-> "Ann", email |-> "a@x.com", phone |-> <<>>],
     [name |-> "Bob", email |-> "b@x.com", phone |-> PhoneShort],
     [name |-> "Bob", email |-> "b@x.com", phone |-> PhonePlus10],
     [name |-> "Bob", email |-> "bad", phone |-> <<>>]}

BulkInputs == SeqsUpTo(BulkRowInputs, MaxBulkRows)

----------------------------------------------------------------------------
(* The database *)

DB == [customers |-> customers, products |-> products,
       orders |-> orders, orderItems |-> orderItems]

EmptyDB == [customers |-> {}, products |-> {}, orders |-> {}, orderItems |-> {}]

NextId(table) == Cardinality(table) + 1

RECURSIVE SumOver(_, _)
SumOver(f, s) ==
    IF s = <<>> THEN 0 ELSE f[Head(s)] + SumOver(f, Tail(s))

RECURSIVE SumSet(_)
SumSet(S) ==
    IF S = {} THEN 0
    ELSE LET x == CHOOSE y \in S : TRUE
         IN x.unit_price * x.quantity + SumSet(S \ {x})

----------------------------------------------------------------------------
(* Validation rules *)

AllDigits(s) == \A i \in 1 .. Len(s) : s[i] \in Digits

\* \+\d{10,15}
MatchPlusDigits(s) ==
    /\ Len(s) >= 1
    /\ s[1] = "+"
    /\ Len(s) - 1 >= PhonePlusMin
    /\ Len(s) - 1 <= PhonePlusMax
    /\ AllDigits(Tail(s))

\* \d{3}-\d{3}-\d{4}
MatchDashed(s) ==
    /\ Len(s) = 12
    /\ s[4] = "-"
    /\ s[8] = "-"
    /\ \A i \in (1 .. 12) \ {4, 8} : s[i] \in Digits

\* re.match(r'^(...|...)$', s): "$" also matches just before a final newline
PhonePatternMatch(s) ==
    LET body == IF Len(s) >= 1 /\ s[Len(s)] = "\n"
                THEN SubSeq(s, 1, Len(s) - 1) ELSE s
    IN \/ MatchPlusDigits(s) \/ MatchDashed(s)
       \/ MatchPlusDigits(body) \/ MatchDashed(body)

validate_phone_format(phone) ==
    IF phone # <<>> THEN PhonePatternMatch(phone) ELSE TRUE

\* a lookup that never finds the email
EmailNeverTaken(db, email, exclude_id) == FALSE

\* the rows of Customer with this email, other than row exclude_id: what a
\* lookup by email finds and what the unique index on email refuses
EmailTaken(db, email, exclude_id) ==
    \E c \in db.customers :
        /\ c.email = email
        /\ (exclude_id = None \/ c.id # exclude_id[1])

validate_email_unique(db, email, exclude_id) ==
    ~ EmailTaken(db, email, exclude_id)

\* EmailField's validator, on the addresses the model draws
EmailValidator(email) == email \in WellFormedEmails

\* Customer.full_clean(): clean_fields, clean, validate_unique; the errors found
CustomerFullClean(db, c) ==
    LET nameErr == IF c.name = "" THEN <<[field |-> "name"]>> ELSE <<>>
        emailErr == IF ~ EmailValidator(c.email)
                    THEN <<[field |-> "email"]>> ELSE <<>>
        lenErr == IF Len(c.phone) > 20 THEN <<[field |-> "phone"]>> ELSE <<>>
        cleanErr == IF c.phone # <<>> /\ ~ PhonePatternMatch(c.phone)
                    THEN <<[field |-> "phone"]>> ELSE <<>>
        uniqErr == IF emailErr = <<>> /\ EmailTaken(db, c.email, None)
                   THEN <<[field |-> "email"]>> ELSE <<>>
    IN nameErr \o emailErr \o lenErr \o cleanErr \o uniqErr

\* MinValueValidator(0.01) on a Decimal: the limit is the float 0.01, which is
\* a little more than 1/100, so one cent is below it
MinValueValidator(cents) == cents > 1

\* a lookup that never finds the name
NameNeverTaken(db, name, exclude_id) == FALSE

\* the rows of Product with this name, other than row exclude_id: what
\* validate_unique looks up and what the unique index on name refuses
NameTaken(db, name, exclude_id) ==
    \E q \in db.products :
        /\ q.name = name
        /\ (exclude_id = None \/ q.id # exclude_id[1])

\* Product.full_clean(); the range of stock is the one PositiveIntegerField
\* has on PostgreSQL, MySQL and Oracle (0 .. 2147483647)
ProductFullClean(db, p, self_id) ==
    LET nameErr == IF p.name = "" THEN <<[field |-> "name"]>> ELSE <<>>
        priceErr == IF ~ MinValueValidator(p.price)
                    THEN <<[field |-> "price"]>> ELSE <<>>
        stockErr == IF p.stock < 0 \/ p.stock > MaxInt
                    THEN <<[field |-> "stock"]>> ELSE <<>>
        uniqErr == IF NameTaken(db, p.name, self_id)
                   THEN <<[field |-> "name"]>> ELSE <<>>
    IN nameErr \o priceErr \o stockErr \o uniqErr

\* Order.full_clean(): total_amount's MinValueValidator(0.01)
OrderFullClean(o) ==
    IF ~ MinValueValidator(o.total_amount)
    THEN <<[field |-> "total_amount"]>> ELSE <<>>

----------------------------------------------------------------------------
(* Transactions *)

\* a block that commits whatever was written, marked for rollback or not
AtomicExitCommitsAlways(before, work, needs_rollback) == work

\* a block that never commits
AtomicExitNeverCommits(before, work, needs_rollback) == before

\* leaving @transaction.atomic when the function returned: commit, unless a
\* failed statement marked the transaction for rollback
AtomicExit(before, work, needs_rollback) ==
    IF needs_rollback THEN before ELSE work

\* @transaction.atomic wraps mutate outside its try: it opens the connection
\* and begins the transaction before the try is entered, so a storage that
\* cannot be reached raises there, and the exception leaves mutate
Escaped == [exception |-> "OperationalError"]

Raised(r) == DOMAIN r = {"exception"}

Unavailable == [error |-> "OperationalError"]

----------------------------------------------------------------------------
(* createCustomer *)

CustomerResponse(success, customer, message, errors) ==
    [success |-> success, customer |-> customer,
     message |-> message, errors |-> errors]

\* an email column without its unique index
InsertWithoutUniqueIndex(db, c) == TRUE

\* Customer.save(): INSERT under the unique constraint on email
CustomerInsertOk(db, c) == ~ EmailTaken(db, c.email, None)

NewCustomer(db, input) ==
    [id |-> NextId(db.customers), name |-> input.name,
     email |-> input.email,
     phone |-> IF input.phone # <<>> THEN input.phone ELSE <<>>]

\* the email is looked up before the phone is tested
CustomerFirstViolationEmailFirst(db, input, up) ==
    IF up /\ ~ validate_email_unique(db, input.email, None)
    THEN "email"
    ELSE IF input.phone # <<>> /\ ~ validate_phone_format(input.phone)
    THEN "phone"
    ELSE IF ~ up
    THEN "unavailable"
    ELSE "none"

\* the tests CreateCustomer.mutate makes before it builds the customer, in
\* their order: the first that fails; the lookup of the email is the first
\* statement that needs the storage
CustomerFirstViolation(db, input, up) ==
    IF input.phone # <<>> /\ ~ validate_phone_format(input.phone)
    THEN "phone"
    ELSE IF ~ up
    THEN "unavailable"
    ELSE IF ~ validate_email_unique(db, input.email, None)
    THEN "email"
    ELSE "none"

\* CreateCustomer.mutate; up: whether the storage answers during the call
CreateCustomerMutate(db, input, up) ==
    LET customer == NewCustomer(db, input)
        verrs == CustomerFullClean(db, customer)
        violated == CustomerFirstViolation(db, input, up)
    IN
    IF violated = "phone"
    THEN [db |-> db,
          resp |-> CustomerResponse(FALSE, None, "Validation failed",
                                    <<[error |-> "PhoneFormat"]>>)]
    ELSE IF violated = "unavailable"
    THEN [db |-> db,
          resp |-> CustomerResponse(FALSE, None, "Failed to create customer",
                                    <<Unavailable>>)]
    ELSE IF violated = "email"
    THEN [db |-> db,
          resp |-> CustomerResponse(FALSE, None, "Validation failed",
                                    <<[error |-> "EmailExists"]>>)]
    ELSE IF verrs # <<>>
    THEN [db |-> db,
          resp |-> CustomerResponse(FALSE, None, "Validation failed", verrs)]
    ELSE IF ~ CustomerInsertOk(db, customer)
    THEN [db |-> db,
          resp |-> CustomerResponse(FALSE, None, "Failed to create customer",
                                    <<[error |-> "IntegrityError"]>>)]
    ELSE [db |-> [db EXCEPT !.customers = @ \cup {customer}],
          resp |-> CustomerResponse(TRUE, Some(customer),
                                    "Customer created successfully", <<>>)]

----------------------------------------------------------------------------
(* createProduct *)

ProductResponse(success, product, message, errors) ==
    [success |-> success, product |-> product,
     message |-> message, errors |-> errors]

\* Product.save(): INSERT under the unique constraint on name
ProductInsertOk(db, p) == ~ NameTaken(db, p.name, None)

\* a mutate that stores the product as it was given
CreateProductMutateUnvalidated(db, input, up) ==
    LET product == [id |-> NextId(db.products), name |-> input.name,
                    price |-> input.price,
                    stock |-> IF input.stock # None THEN input.stock[1] ELSE 0]
    IN [db |-> [db EXCEPT !.products = @ \cup {product}],
        resp |-> ProductResponse(TRUE, Some(product),
                                 "Product created successfully", <<>>)]

\* CreateProduct.mutate
CreateProductMutate(db, input, up) ==
    LET stock == IF input.stock # None THEN input.stock[1] ELSE 0
        product == [id |-> NextId(db.products), name |-> input.name,
                    price |-> input.price, stock |-> stock]
        verrs == ProductFullClean(db, product, None)
    IN
    IF input.price <= 0
    THEN [db |-> db,
          resp |-> ProductResponse(FALSE, None, "Validation failed",
                                   <<[error |-> "PriceNotPositive"]>>)]
    ELSE IF stock < 0
    THEN [db |-> db,
          resp |-> ProductResponse(FALSE, None, "Validation failed",
                                   <<[error |-> "StockNegative"]>>)]
    ELSE IF ~ up
    THEN [db |-> db,
          resp |-> ProductResponse(FALSE, None, "Failed to create product",
                                   <<Unavailable>>)]
    ELSE IF verrs # <<>>
    THEN [db |-> db,
          resp |-> ProductResponse(FALSE, None, "Validation failed", verrs)]
    ELSE IF ~ ProductInsertOk(db, product)
    THEN [db |-> db,
          resp |-> ProductResponse(FALSE, None, "Failed to create product",
                                   <<[error |-> "IntegrityError"]>>)]
    ELSE [db |-> [db EXCEPT !.products = @ \cup {product}],
          resp |-> ProductResponse(TRUE, Some(product),
                                   "Product created successfully", <<>>)]

----------------------------------------------------------------------------
(* bulkCreateCustomers *)

BulkCustomerResponse(created, errors) ==
    [customers |-> created, errors |-> errors]

RowError(index, what) == [row |-> index, error |-> what]

\* the state of the loop: the rows this transaction has inserted and not yet
\* committed, the customers and errors collected, the rollback mark
BulkStart ==
    [own |-> {}, created |-> <<>>, errors |-> <<>>, needs_rollback |-> FALSE]

\* what the transaction reads: the committed rows and its own
BulkView(db, st) == [db EXCEPT !.customers = @ \cup st.own]

BulkFail(st, index, what) ==
    [st EXCEPT !.errors = Append(@, RowError(index, what))]

\* one turn of the loop of BulkCreateCustomers.mutate on row index (1-based),
\* up to full_clean: the row is refused with an error, or goes on to save()
BulkRowCheck(st, row, index, view) ==
    IF \E i \in 1 .. Len(st.created) : st.created[i].email = row.email
    THEN [st |-> BulkFail(st, index, "Duplicated"), proceed |-> FALSE]
    ELSE IF st.needs_rollback
    THEN [st |-> BulkFail(st, index, "TransactionManagementError"),
          proceed |-> FALSE]
    ELSE IF ~ validate_email_unique(view, row.email, None)
    THEN [st |-> BulkFail(st, index, "EmailExists"), proceed |-> FALSE]
    ELSE IF row.phone # <<>> /\ ~ validate_phone_format(row.phone)
    THEN [st |-> BulkFail(st, index, "PhoneFormat"), proceed |-> FALSE]
    ELSE IF CustomerFullClean(view, NewCustomer(view, row)) # <<>>
    THEN [st |-> BulkFail(st, index, "Validation"), proceed |-> FALSE]
    ELSE [st |-> st, proceed |-> TRUE]

\* customer.save() and the append; conflict: the INSERT is refused, which
\* marks the transaction for rollback and is caught as a row error
BulkRowSave(st, customer, index, conflict) ==
    IF conflict
    THEN [BulkFail(st, index, "IntegrityError") EXCEPT !.needs_rollback = TRUE]
    ELSE [st EXCEPT !.own = @ \cup {customer},
                    !.created = Append(@, customer)]

\* a loop that saves every row as it comes
BulkRowUnchecked(st, row, index, db) ==
    BulkRowSave(st, NewCustomer(BulkView(db, st), row), index, FALSE)

BulkRow(st, row, index, db) ==
    LET view == BulkView(db, st)
        checked == BulkRowCheck(st, row, index, view)
        customer == NewCustomer(view, row)
    IN IF checked.proceed
       THEN BulkRowSave(st, customer, index, ~ CustomerInsertOk(view, customer))
       ELSE checked.st

RECURSIVE BulkLoop(_, _, _, _)
BulkLoop(st, rows, index, db) ==
    IF index > Len(rows) THEN st
    ELSE BulkLoop(BulkRow(st, rows[index], index, db), rows, index + 1, db)

\* BulkCreateCustomers.mutate under @transaction.atomic
BulkCreateCustomersMutate(db, rows, up) ==
    IF ~ up THEN [db |-> db, resp |-> Escaped]
    ELSE LET st == BulkLoop(BulkStart, rows, 1, db)
         IN [db |-> AtomicExit(db, BulkView(db, st), st.needs_rollback),
             resp |-> BulkCustomerResponse(st.created, st.errors)]

----------------------------------------------------------------------------
(* createOrder *)

OrderResponse(success, order, message, errors) ==
    [success |-> success, order |-> order,
     message |-> message, errors |-> errors]

ProductExists(db, id) == \E p \in db.products : p.id = id

ProductById(db, id) == CHOOSE p \in db.products : p.id = id

\* the loop over input.product_ids: the products found, in input order
ResolvedProducts(db, ids) ==
    LET found == SelectSeq(ids, LAMBDA i : ProductExists(db, i))
    IN [k \in 1 .. Len(found) |-> ProductById(db, found[k])]

\* only the first id of the list is looked up
InvalidOnlyHeadChecked(db, ids) ==
    IF ids # <<>> /\ ~ ProductExists(db, Head(ids)) THEN <<Head(ids)>> ELSE <<>>

\* the loop stops at the first id not found
InvalidFirstOnly(db, ids) ==
    LET bad == SelectSeq(ids, LAMBDA i : ~ ProductExists(db, i))
    IN IF bad = <<>> THEN <<>> ELSE <<Head(bad)>>

\* ... and the ids that raised Product.DoesNotExist, in input order
InvalidProductIds(db, ids) ==
    SelectSeq(ids, LAMBDA i : ~ ProductExists(db, i))

\* the total is the price of the first product only
TotalOfFirst(prods) == IF prods = <<>> THEN 0 ELSE Head(prods).price

RECURSIVE TotalAmount(_)
TotalAmount(prods) ==
    IF prods = <<>> THEN 0 ELSE Head(prods).price + TotalAmount(Tail(prods))

\* the test on unit_price inverted: a given unit price is dropped
OrderItemSaveInverted(item, product) ==
    IF item.unit_price # 0 THEN [item EXCEPT !.unit_price = 0] ELSE item

\* OrderItem.save(): a missing unit price is taken from the product
OrderItemSave(item, product) ==
    IF item.unit_price = 0 THEN [item EXCEPT !.unit_price = product.price]
    ELSE item

\* one row per product whatever the order: a product that has a row gets the
\* quantity of that row raised instead of a row of its own
CreateOrderItemsMerging(items, order, prods) ==
    LET ids == {prods[k].id : k \in 1 .. Len(prods)}
        raised == {IF it.product \in ids THEN [it EXCEPT !.quantity = @ + 1]
                   ELSE it : it \in items}
        fresh == {k \in 1 .. Len(prods) :
                     ~ \E it \in items : it.product = prods[k].id}
    IN [items |-> raised \cup
                  {[id |-> NextId(items) + k, order |-> order.id,
                    product |-> prods[k].id, quantity |-> 1,
                    unit_price |-> prods[k].price] : k \in fresh},
        failed |-> FALSE]

\* the loop of OrderItem.objects.create; unique_together (order, product)
\* refuses a second row for the same pair
RECURSIVE CreateOrderItems(_, _, _)
CreateOrderItems(items, order, prods) ==
    IF prods = <<>> THEN [items |-> items, failed |-> FALSE]
    ELSE LET product == Head(prods)
             item == OrderItemSave([id |-> NextId(items), order |-> order.id,
                                    product |-> product.id, quantity |-> 1,
                                    unit_price |-> product.price], product)
         IN IF \E it \in items : it.order = order.id /\ it.product = product.id
            THEN [items |-> items, failed |-> TRUE]
            ELSE CreateOrderItems(items \cup {item}, order, Tail(prods))

\* Order.save(): order_date is auto_now_add, set to the time of the insert
OrderSave(order) == [order EXCEPT !.order_date = Now]

\* the product list is tested before the customer
FirstViolationListFirst(db, input) ==
    IF input.product_ids = <<>>
    THEN "no_products"
    ELSE IF ~ \E c \in db.customers : c.id = input.customer_id
    THEN "customer"
    ELSE IF InvalidProductIds(db, input.product_ids) # <<>>
    THEN "invalid_products"
    ELSE "none"

\* the preconditions of CreateOrder.mutate in the order they are tested: the
\* first one violated
FirstViolation(db, input) ==
    IF ~ \E c \in db.customers : c.id = input.customer_id
    THEN "customer"
    ELSE IF input.product_ids = <<>>
    THEN "no_products"
    ELSE IF InvalidProductIds(db, input.product_ids) # <<>>
    THEN "invalid_products"
    ELSE "none"

\* the body of CreateOrder.mutate, inside the transaction
CreateOrderBody(db, input) ==
    LET invalid_product_ids == InvalidProductIds(db, input.product_ids)
        prods == ResolvedProducts(db, input.product_ids)
        new == [id |-> NextId(db.orders), customer |-> input.customer_id,
                total_amount |-> TotalAmount(prods), order_date |-> Now]
        order == IF input.order_date # None
                 THEN [new EXCEPT !.order_date = input.order_date[1]] ELSE new
        verrs == OrderFullClean(order)
        saved == OrderSave(order)
        made == CreateOrderItems(db.orderItems, saved, prods)
        fail(message, errors) ==
            [work |-> db, needs_rollback |-> FALSE,
             resp |-> OrderResponse(FALSE, None, message, errors)]
        violated == FirstViolation(db, input)
    IN
    IF violated = "customer"
    THEN fail("Validation failed",
              <<[error |-> "CustomerDoesNotExist", id |-> input.customer_id]>>)
    ELSE IF violated = "no_products"
    THEN fail("Validation failed", <<[error |-> "NoProducts"]>>)
    ELSE IF violated = "invalid_products"
    THEN fail("Validation failed",
              <<[error |-> "InvalidProductIDs", ids |-> invalid_product_ids]>>)
    ELSE IF verrs # <<>>
    THEN fail("Validation failed", verrs)
    ELSE IF made.failed
    THEN [work |-> [db EXCEPT !.orders = @ \cup {saved},
                              !.orderItems = made.items],
          needs_rollback |-> TRUE,
          resp |-> OrderResponse(FALSE, None, "Failed to create order",
                                 <<[error |-> "IntegrityError"]>>)]
    ELSE [work |-> [db EXCEPT !.orders = @ \cup {saved},
                              !.orderItems = made.items],
          needs_rollback |-> FALSE,
          resp |-> OrderResponse(TRUE, Some(saved),
                                 "Order created successfully", <<>>)]

\* an order that takes one unit of each product it names from the stock
CreateOrderMutateTakingStock(db, input, up) ==
    IF ~ up THEN [db |-> db, resp |-> Escaped]
    ELSE LET r == CreateOrderBody(db, input)
             ids == {input.product_ids[k] : k \in 1 .. Len(input.product_ids)}
             work == [r.work EXCEPT !.products =
                         {IF p.id \in ids /\ p.stock > 0
                          THEN [p EXCEPT !.stock = @ - 1] ELSE p : p \in @}]
         IN [db |-> AtomicExit(db, IF r.resp.success THEN work ELSE r.work,
                               r.needs_rollback),
             resp |-> r.resp]

\* CreateOrder.mutate under @transaction.atomic
CreateOrderMutate(db, input, up) ==
    IF ~ up THEN [db |-> db, resp |-> Escaped]
    ELSE LET r == CreateOrderBody(db, input)
         IN [db |-> AtomicExit(db, r.work, r.needs_rollback), resp |-> r.resp]

----------------------------------------------------------------------------
(* updateLowStockProducts *)

LowStockUpdateResponse(success, updated_products, message, errors) ==
    [success |-> success, updated_products |-> updated_products,
     message |-> message, errors |-> errors]

\* Product.Meta.ordering = ['name']
NameOrder == <<"P", "Q">>

\* the filter with stock__lte in place of stock__lt
LowStockAtOrBelow(db) ==
    LET names == SelectSeq(NameOrder,
                     LAMBDA n : \E p \in db.products :
                                    p.name = n /\ p.stock <= LowStockThreshold)
    IN [k \in 1 .. Len(names) |->
            CHOOSE p \in db.products : p.name = names[k]]

\* Product.objects.filter(stock__lt=10), in the default ordering
LowStockProducts(db) ==
    LET names == SelectSeq(NameOrder,
                     LAMBDA n : \E p \in db.products :
                                    p.name = n /\ p.stock < LowStockThreshold)
    IN [k \in 1 .. Len(names) |->
            CHOOSE p \in db.products : p.name = names[k]]

\* the loop over the low-stock products: add, full_clean, save, collect
\* a loop that restocks the first low-stock product and leaves the others
RestockLoopHeadOnly(work, prods, restock_amount, updated) ==
    IF prods = <<>>
    THEN [work |-> work, updated |-> updated, errors |-> <<>>]
    ELSE LET p == Head(prods)
             q == [p EXCEPT !.stock = @ + restock_amount]
         IN [work |-> [work EXCEPT !.products = (@ \ {p}) \cup {q}],
             updated |-> Append(updated, q), errors |-> <<>>]

RECURSIVE RestockLoop(_, _, _, _)
RestockLoop(work, prods, restock_amount, updated) ==
    IF prods = <<>>
    THEN [work |-> work, updated |-> updated, errors |-> <<>>]
    ELSE LET p == Head(prods)
             fits == p.stock <= MaxInt - restock_amount
             q == [p EXCEPT !.stock = IF fits THEN @ + restock_amount ELSE @]
             verrs == IF fits THEN ProductFullClean(work, q, Some(p.id))
                      ELSE <<[field |-> "stock"]>>
         IN IF verrs # <<>>
            THEN [work |-> work, updated |-> updated, errors |-> verrs]
            ELSE RestockLoop([work EXCEPT !.products = (@ \ {p}) \cup {q}],
                             Tail(prods), restock_amount, Append(updated, q))

\* the test refuses negative amounts only
RestockAmountRejectedBelowZero(restock_amount) == restock_amount < 0

\* if restock_amount <= 0
RestockAmountRejected(restock_amount) == restock_amount <= 0

\* the body of UpdateLowStockProducts.mutate, inside the transaction
UpdateLowStockBody(db, restock_amount) ==
    LET low_stock_products == LowStockProducts(db)
        r == RestockLoop(db, low_stock_products, restock_amount, <<>>)
    IN
    IF RestockAmountRejected(restock_amount)
    THEN [work |-> db, needs_rollback |-> FALSE,
          resp |-> LowStockUpdateResponse(FALSE, <<>>, "Validation failed",
                       <<[error |-> "RestockNotPositive"]>>)]
    ELSE IF low_stock_products = <<>>
    THEN [work |-> db, needs_rollback |-> FALSE,
          resp |-> LowStockUpdateResponse(TRUE, <<>>,
                       "No low-stock products found", <<>>)]
    ELSE IF r.errors # <<>>
    THEN [work |-> r.work, needs_rollback |-> FALSE,
          resp |-> LowStockUpdateResponse(FALSE, <<>>,
                       "Validation failed during update", r.errors)]
    ELSE [work |-> r.work, needs_rollback |-> FALSE,
          resp |-> LowStockUpdateResponse(TRUE, r.updated,
                       "Successfully updated", <<>>)]

\* UpdateLowStockProducts.mutate under @transaction.atomic
UpdateLowStockProductsMutate(db, restock_amount, up) ==
    IF ~ up THEN [db |-> db, resp |-> Escaped]
    ELSE LET r == UpdateLowStockBody(db, restock_amount)
         IN [db |-> AtomicExit(db, r.work, r.needs_rollback), resp |-> r.resp]

----------------------------------------------------------------------------
(* The requests, one at a time *)

Procs == {1, 2}

IdleProc == [pc |-> "idle", kind |-> "none"]

Init ==
    /\ customers = {}
    /\ products = {}
    /\ orders = {}
    /\ orderItems = {}
    /\ call = [op |-> "none"]
    /\ resp = [none |-> TRUE]
    /\ pre = EmptyDB
    /\ procs = [p \in Procs |-> IdleProc]

WithinBounds(db) == Cardinality(db.orders) <= MaxOrders

Idle == call.op = "none"

\* the call ends: its writes are in the tables and its response is returned
Finished(op, input, up, r) ==
    /\ customers' = r.db.customers
    /\ products' = r.db.products
    /\ orders' = r.db.orders
    /\ orderItems' = r.db.orderItems
    /\ call' = [op |-> op, input |-> input, up |-> up]
    /\ resp' = r.resp
    /\ pre' = DB
    /\ UNCHANGED procs

Finish(op, input, up, r) ==
    /\ Idle
    /\ WithinBounds(r.db)
    /\ Finished(op, input, up, r)

CreateCustomer(up) ==
    \E input \in CustomerInputs :
        Finish("createCustomer", input, up, CreateCustomerMutate(DB, input, up))

BulkCreateCustomers(up) ==
    \E rows \in BulkInputs :
        Finish("bulkCreateCustomers", rows, up,
               BulkCreateCustomersMutate(DB, rows, up))

CreateProduct(up) ==
    \E input \in ProductInputs :
        Finish("createProduct", input, up, CreateProductMutate(DB, input, up))

CreateOrder(up) ==
    \E input \in OrderInputs :
        Finish("createOrder", input, up, CreateOrderMutate(DB, input, up))

UpdateLowStockProducts(up) ==
    \E restock_amount \in RestockInputs :
        Finish("updateLowStockProducts", restock_amount, up,
               UpdateLowStockProductsMutate(DB, restock_amount, up))

\* the response leaves with the request
Return ==
    /\ ~ Idle
    /\ call' = [op |-> "none"]
    /\ resp' = [none |-> TRUE]
    /\ pre' = EmptyDB
    /\ UNCHANGED <<customers, products, orders, orderItems, procs>>

Next ==
    \/ Return
    \/ CreateCustomer(TRUE)
    \/ BulkCreateCustomers(TRUE)
    \/ CreateProduct(TRUE)
    \/ CreateOrder(TRUE)
    \/ UpdateLowStockProducts(TRUE)

Spec == Init /\ [][Next]_vars

----------------------------------------------------------------------------
(* The requests when the storage may be out of reach *)

NextFault ==
    \/ Return
    \/ \E up \in BOOLEAN :
          \/ CreateCustomer(up)
          \/ BulkCreateCustomers(up)
          \/ CreateProduct(up)
          \/ CreateOrder(up)
          \/ UpdateLowStockProducts(up)

FaultSpec == Init /\ [][NextFault]_vars

----------------------------------------------------------------------------
(* Concurrent createCustomer and bulkCreateCustomers requests.  customers   *)
(* holds the committed rows.  A createCustomer runs in autocommit: each of  *)
(* its statements (the lookup of validate_email_unique, the lookup of       *)
(* full_clean, the INSERT of save) is a step.  A bulkCreateCustomers runs   *)
(* in one transaction: it reads the committed rows and its own, its rows    *)
(* are committed or rolled back when mutate returns, and until then an      *)
(* INSERT of the same email by another request waits for it or is refused.  *)

ConcCustomerInputs == CustomerInputs

ConcBulkRowInputs ==
    {[name |-> "Ann", email |-> "a@x.com", phone |-> <<>>],
     [name |-> "Bob", email |-> "b@x.com", phone |-> PhonePlus10]}

ConcBulkInputs == SeqsUpTo(ConcBulkRowInputs, MaxBulkRows)

InTransaction(q) == procs[q].kind = "bulk" /\ procs[q].pc # "done"

Uncommitted(q) == IF InTransaction(q) THEN procs[q].st.own ELSE {}

\* every row written, committed or not: what the id sequence has handed out
AllRows == [DB EXCEPT !.customers = @ \cup UNION {Uncommitted(q) : q \in Procs}]

\* another transaction holds an uncommitted row with this email
HeldByOther(p, email) ==
    \E q \in Procs \ {p} : \E c \in Uncommitted(q) : c.email = email

ConcUnchanged == UNCHANGED <<products, orders, orderItems, call, resp, pre>>

Done(p, result) ==
    procs' = [procs EXCEPT ![p] = [@ EXCEPT !.pc = "done", !.result = result]]

StartCreateCustomer(p) ==
    /\ procs[p].pc = "idle"
    /\ \E input \in ConcCustomerInputs :
          procs' = [procs EXCEPT ![p] =
              IF input.phone # <<>> /\ ~ validate_phone_format(input.phone)
              THEN [pc |-> "done", kind |-> "single", input |-> input,
                    result |-> CustomerResponse(FALSE, None, "Validation failed",
                                                <<[error |-> "PhoneFormat"]>>)]
              ELSE [pc |-> "check_email", kind |-> "single", input |-> input,
                    result |-> [none |-> TRUE]]]
    /\ UNCHANGED customers
    /\ ConcUnchanged

CheckEmail(p) ==
    /\ procs[p].pc = "check_email"
    /\ IF ~ validate_email_unique(DB, procs[p].input.email, None)
       THEN Done(p, CustomerResponse(FALSE, None, "Validation failed",
                                     <<[error |-> "EmailExists"]>>))
       ELSE procs' = [procs EXCEPT ![p].pc = "full_clean"]
    /\ UNCHANGED customers
    /\ ConcUnchanged

FullClean(p) ==
    /\ procs[p].pc = "full_clean"
    /\ LET verrs == CustomerFullClean(DB, NewCustomer(DB, procs[p].input))
       IN IF verrs # <<>>
          THEN Done(p, CustomerResponse(FALSE, None, "Validation failed", verrs))
          ELSE procs' = [procs EXCEPT ![p].pc = "save"]
    /\ UNCHANGED customers
    /\ ConcUnchanged

Save(p) ==
    /\ procs[p].pc = "save"
    /\ LET customer == NewCustomer(AllRows, procs[p].input)
       IN \/ /\ ~ CustomerInsertOk(DB, customer)
             /\ Done(p, CustomerResponse(FALSE, None, "Failed to create customer",
                                         <<[error |-> "IntegrityError"]>>))
             /\ UNCHANGED customers
          \/ /\ CustomerInsertOk(DB, customer)
             /\ HeldByOther(p, customer.email)
             /\ Done(p, CustomerResponse(FALSE, None, "Failed to create customer",
                                         <<[error |-> "OperationalError"]>>))
             /\ UNCHANGED customers
          \/ /\ CustomerInsertOk(DB, customer)
             /\ ~ HeldByOther(p, customer.email)
             /\ customers' = customers \cup {customer}
             /\ Done(p, CustomerResponse(TRUE, Some(customer),
                                         "Customer created successfully", <<>>))
    /\ ConcUnchanged

BulkAdvance(p, st) ==
    procs' = [procs EXCEPT ![p] =
        [@ EXCEPT !.st = st,
                  !.index = @ + 1,
                  !.pc = IF procs[p].index + 1 > Len(procs[p].rows)
                         THEN "commit" ELSE "row_check"]]

StartBulk(p) ==
    /\ procs[p].pc = "idle"
    /\ \E rows \in ConcBulkInputs :
          procs' = [procs EXCEPT ![p] =
              [pc |-> IF rows = <<>> THEN "commit" ELSE "row_check",
               kind |-> "bulk", rows |-> rows, index |-> 1,
               st |-> BulkStart, result |-> [none |-> TRUE]]]
    /\ UNCHANGED customers
    /\ ConcUnchanged

BulkCheck(p) ==
    /\ procs[p].pc = "row_check"
    /\ LET me == procs[p]
           r == BulkRowCheck(me.st, me.rows[me.index], me.index,
                             BulkView(DB, me.st))
       IN IF r.proceed
          THEN procs' = [procs EXCEPT ![p].pc = "row_save"]
          ELSE BulkAdvance(p, r.st)
    /\ UNCHANGED customers
    /\ ConcUnchanged

BulkSave(p) ==
    /\ procs[p].pc = "row_save"
    /\ LET me == procs[p]
           customer == NewCustomer(AllRows, me.rows[me.index])
           free == CustomerInsertOk(BulkView(DB, me.st), customer)
       IN \/ /\ ~ free
             /\ BulkAdvance(p, BulkRowSave(me.st, customer, me.index, TRUE))
          \/ /\ free
             /\ HeldByOther(p, customer.email)
             /\ BulkAdvance(p, BulkRowSave(me.st, customer, me.index, TRUE))
          \/ /\ free
             /\ ~ HeldByOther(p, customer.email)
             /\ BulkAdvance(p, BulkRowSave(me.st, customer, me.index, FALSE))
    /\ UNCHANGED customers
    /\ ConcUnchanged

BulkCommit(p) ==
    /\ procs[p].pc = "commit"
    /\ LET st == procs[p].st
       IN /\ customers' =
                AtomicExit(DB, BulkView(DB, st), st.needs_rollback).customers
          /\ Done(p, BulkCustomerResponse(st.created, st.errors))
    /\ ConcUnchanged

ReturnConc(p) ==
    /\ procs[p].pc = "done"
    /\ procs' = [procs EXCEPT ![p] = IdleProc]
    /\ UNCHANGED customers
    /\ ConcUnchanged

NextConc ==
    \E p \in Procs :
        \/ StartCreateCustomer(p)
        \/ CheckEmail(p)
        \/ FullClean(p)
        \/ Save(p)
        \/ StartBulk(p)
        \/ BulkCheck(p)
        \/ BulkSave(p)
        \/ BulkCommit(p)
        \/ ReturnConc(p)

ConcSpec == Init /\ [][NextConc]_vars

----------------------------------------------------------------------------
(* Longer histories of orders: the same requests, one at a time, with fewer *)
(* inputs to draw from and more orders kept                                 *)

HistoryCustomerInputs == {[name |-> "Ann", email |-> "a@x.com", phone |-> <<>>]}

HistoryProductInputs ==
    {[name |-> "P", price |-> 3, stock |-> None],
     [name |-> "Q", price |-> 5, stock |-> Some(3)]}

HistoryOrderInputs ==
    [customer_id : {1},
     product_ids : SeqsUpTo(ProductIdInputs, MaxIdsLen),
     order_date : {None}]

HistoryRestockInputs == {0, 5, 10}

FinishHistory(op, input, r) ==
    /\ Idle
    /\ Cardinality(r.db.orders) <= MaxHistoryOrders
    /\ Finished(op, input, TRUE, r)

HistoryCreateCustomer ==
    \E input \in HistoryCustomerInputs :
        FinishHistory("createCustomer", input,
                      CreateCustomerMutate(DB, input, TRUE))

HistoryCreateProduct ==
    \E input \in HistoryProductInputs :
        FinishHistory("createProduct", input,
                      CreateProductMutate(DB, input, TRUE))

HistoryCreateOrder ==
    \E input \in HistoryOrderInputs :
        FinishHistory("createOrder", input, CreateOrderMutate(DB, input, TRUE))

HistoryUpdateLowStockProducts ==
    \E restock_amount \in HistoryRestockInputs :
        FinishHistory("updateLowStockProducts", restock_amount,
                      UpdateLowStockProductsMutate(DB, restock_amount, TRUE))

NextHistory ==
    \/ Return
    \/ HistoryCreateCustomer
    \/ HistoryCreateProduct
    \/ HistoryCreateOrder
    \/ HistoryUpdateLowStockProducts

HistorySpec == Init /\ [][NextHistory]_vars

----------------------------------------------------------------------------
(* filteredProducts: the read query, over the products that createProduct   *)
(* and updateLowStockProducts leave in the table                            *)

\* str.lower() on the names and patterns drawn
Lower(s) == CASE s = "P" -> "p" [] s = "Q" -> "q" [] OTHER -> s

\* name__icontains, on names of one character: the pattern is empty or it is
\* the name, whatever the case
NameIContains(name, pattern) == pattern = "" \/ Lower(name) = Lower(pattern)

\* if filter.get(key), for a number: absent, None and 0 are all false
TruthyNumber(v) == v # None /\ v[1] # 0

\* if filter.get(key), for a string: absent, None and '' are all false
TruthyString(v) == v # None /\ v[1] # ""

ProductFilterInputs ==
    [name_icontains : {None, Some("p"), Some("")},
     price_gte : {None, Some(0), Some(3), Some(4)},
     price_lte : {None, Some(0), Some(3), Some(4)},
     stock_gte : {None, Some(0), Some(3), Some(10)},
     stock_lte : {None, Some(0), Some(3), Some(10)},
     low_stock : {None, Some(TRUE), Some(FALSE)}]

\* the filter argument is optional
ProductFilterArgs == {None} \cup {Some(f) : f \in ProductFilterInputs}

\* Query.resolve_filtered_products, without order_by: the rows of the queryset
resolve_filtered_products(db, filter) ==
    IF filter = None THEN db.products
    ELSE LET f == filter[1]
         IN {p \in db.products :
                /\ TruthyString(f.name_icontains) =>
                      NameIContains(p.name, f.name_icontains[1])
                /\ TruthyNumber(f.price_gte) => p.price >= f.price_gte[1]
                /\ TruthyNumber(f.price_lte) => p.price <= f.price_lte[1]
                /\ TruthyNumber(f.stock_gte) => p.stock >= f.stock_gte[1]
                /\ TruthyNumber(f.stock_lte) => p.stock <= f.stock_lte[1]
                /\ (f.low_stock # None /\ f.low_stock[1]) => p.stock < 10}

FilteredProducts ==
    \E filter \in ProductFilterArgs :
        /\ Idle
        /\ call' = [op |-> "filteredProducts", input |-> filter]
        /\ resp' = [products |-> resolve_filtered_products(DB, filter)]
        /\ pre' = DB
        /\ UNCHANGED <<customers, products, orders, orderItems, procs>>

NextQuery ==
    \/ Return
    \/ HistoryCreateProduct
    \/ HistoryUpdateLowStockProducts
    \/ FilteredProducts

QuerySpec == Init /\ [][NextQuery]_vars

----------------------------------------------------------------------------
(* Two updateLowStockProducts requests at once.  Each runs in a transaction *)
(* that reads committed rows; every query of mutate (exists, the SELECT of  *)
(* the loop, the UPDATE of each save) is a step.  An UPDATE locks its row   *)
(* until the transaction ends, so a second UPDATE of the row waits for it.  *)

ConcRestockInputs == {0, 5, 10}

\* what the transaction of p has written and not committed
RestockView(db, written) ==
    [db EXCEPT !.products =
        {q \in @ : \A w \in written : w.id # q.id} \cup written]

\* another transaction holds the lock of the row
RowLockedByOther(p, id) ==
    \E q \in Procs \ {p} :
        /\ procs[q].kind = "restock"
        /\ procs[q].pc # "done"
        /\ \E w \in procs[q].written : w.id = id

RestockUnchanged == UNCHANGED <<customers, orders, orderItems, call, resp, pre>>

RestockStart(p) ==
    /\ procs[p].pc = "idle"
    /\ \E restock_amount \in ConcRestockInputs :
          procs' = [procs EXCEPT ![p] =
              IF RestockAmountRejected(restock_amount)
              THEN [pc |-> "done", kind |-> "restock",
                    amount |-> restock_amount, low |-> <<>>, updated |-> <<>>,
                    written |-> {},
                    result |-> LowStockUpdateResponse(FALSE, <<>>,
                                  "Validation failed",
                                  <<[error |-> "RestockNotPositive"]>>)]
              ELSE [pc |-> "exists", kind |-> "restock",
                    amount |-> restock_amount, low |-> <<>>, updated |-> <<>>,
                    written |-> {}, result |-> [none |-> TRUE]]]
    /\ UNCHANGED products
    /\ RestockUnchanged

\* if not low_stock_products.exists()
RestockExists(p) ==
    /\ procs[p].pc = "exists"
    /\ procs[p].kind = "restock"
    /\ IF LowStockProducts(DB) = <<>>
       THEN Done(p, LowStockUpdateResponse(TRUE, <<>>,
                        "No low-stock products found", <<>>))
       ELSE procs' = [procs EXCEPT ![p].pc = "fetch"]
    /\ UNCHANGED products
    /\ RestockUnchanged

\* for product in low_stock_products: the SELECT that the loop iterates
RestockFetch(p) ==
    /\ procs[p].pc = "fetch"
    /\ LET low == LowStockProducts(DB)
       IN procs' = [procs EXCEPT ![p] =
              [@ EXCEPT !.low = low,
                        !.pc = IF low = <<>> THEN "commit" ELSE "save"]]
    /\ UNCHANGED products
    /\ RestockUnchanged

\* one turn of the loop: add to the stock that was read, full_clean, save
RestockSave(p) ==
    /\ procs[p].pc = "save"
    /\ procs[p].kind = "restock"
    /\ LET me == procs[p]
           product == Head(me.low)
           fits == product.stock <= MaxInt - me.amount
           q == [product EXCEPT !.stock = IF fits THEN @ + me.amount ELSE @]
           verrs == IF fits
                    THEN ProductFullClean(RestockView(DB, me.written), q,
                                          Some(product.id))
                    ELSE <<[field |-> "stock"]>>
       IN IF verrs # <<>>
          THEN procs' = [procs EXCEPT ![p] =
                   [@ EXCEPT !.pc = "commit",
                             !.result = LowStockUpdateResponse(FALSE, <<>>,
                                 "Validation failed during update", verrs)]]
          ELSE /\ ~ RowLockedByOther(p, product.id)
               /\ procs' = [procs EXCEPT ![p] =
                      [@ EXCEPT !.written = @ \cup {q},
                                !.updated = Append(@, q),
                                !.low = Tail(@),
                                !.pc = IF Tail(me.low) = <<>>
                                       THEN "commit" ELSE "save"]]
    /\ UNCHANGED products
    /\ RestockUnchanged

\* mutate returns and the transaction commits what it wrote
RestockCommit(p) ==
    /\ procs[p].pc = "commit"
    /\ procs[p].kind = "restock"
    /\ LET me == procs[p]
       IN /\ products' =
                AtomicExit(DB, RestockView(DB, me.written), FALSE).products
          /\ Done(p, IF me.result # [none |-> TRUE] THEN me.result
                     ELSE LowStockUpdateResponse(TRUE, me.updated,
                              "Successfully updated", <<>>))
    /\ RestockUnchanged

RestockReturn(p) ==
    /\ procs[p].pc = "done"
    /\ procs[p].kind = "restock"
    /\ procs' = [procs EXCEPT ![p] = IdleProc]
    /\ UNCHANGED products
    /\ RestockUnchanged

NextRestock ==
    \/ Return
    \/ HistoryCreateProduct
    \/ \E p \in Procs :
          \/ RestockStart(p)
          \/ RestockExists(p)
          \/ RestockFetch(p)
          \/ RestockSave(p)
          \/ RestockCommit(p)
          \/ RestockReturn(p)

RestockSpec == Init /\ [][NextRestock]_vars

----------------------------------------------------------------------------
(* validate_phone_format on its own: a phone string is drawn, then tested *)

Numerals == <<"1", "2", "3", "4", "5", "6", "7", "8", "9", "0">>

\* the first n characters of 123456789012...
Run(n) == [i \in 1 .. n |-> Numerals[((i - 1) % 10) + 1]]

PhoneTails == {<<>>, <<"\n">>, <<"\n", "\n">>, <<"x">>}

PlusPhones ==
    {<<"+">> \o Run(n) \o t : n \in 0 .. MaxPhoneDigits, t \in PhoneTails}

PlainPhones == {Run(n) \o t : n \in 0 .. MaxPhoneDigits, t \in PhoneTails}

GroupedPhones ==
    {Run(a) \o <<sep>> \o Run(b) \o <<sep>> \o Run(c) \o t :
        a \in 2 .. 4, b \in 2 .. 4, c \in 3 .. 5,
        sep \in {"-", "."}, t \in PhoneTails}

OtherPhones ==
    {<<" ">> \o PhonePlus10,
     <<"+">> \o Run(9) \o <<"U+0661">>,
     <<"+">> \o Run(5) \o <<"a">> \o Run(5),
     <<"+", "+">> \o Run(10)}

PhoneInputs == PlusPhones \cup PlainPhones \cup GroupedPhones \cup OtherPhones

PhoneInit ==
    /\ customers = {}
    /\ products = {}
    /\ orders = {}
    /\ orderItems = {}
    /\ call \in {[op |-> "phone", input |-> phone] : phone \in PhoneInputs}
    /\ resp = [none |-> TRUE]
    /\ pre = EmptyDB
    /\ procs = [p \in Procs |-> IdleProc]

ValidatePhoneFormat ==
    /\ call.op = "phone"
    /\ call' = [op |-> "validate_phone_format", input |-> call.input]
    /\ resp' = [result |-> validate_phone_format(call.input)]
    /\ UNCHANGED <<customers, products, orders, orderItems, pre, procs>>

PhoneNext == ValidatePhoneFormat

PhoneSpec == PhoneInit /\ [][PhoneNext]_vars

----------------------------------------------------------------------------
(* log_crm_heartbeat, run by cron every five minutes.  The heartbeat log is *)
(* kept in resp.log, and pre is the log as the invocation found it.  What   *)
(* the checks answer, and whether the log file and standard output can be   *)
(* written, is drawn for each invocation.                                   *)

MaxLogLines == 2

\* what the four checks can return
HealthCheckResults ==
    [graphql_gql : {"HEALTHY", "UNHEALTHY - Invalid response", "ERROR"},
     graphql_rest : {"HEALTHY", "UNHEALTHY - Invalid data",
                     "UNHEALTHY - HTTP 500", "NETWORK_ERROR"},
     database : {"HEALTHY", "UNHEALTHY"},
     cache : {"HEALTHY", "UNHEALTHY"}]

\* log_writable: open(log_file, 'a') and the write in the try succeed;
\* handler_writable: those of the except clause do; stdout_ok: print does
HeartbeatEnvs ==
    [checks : HealthCheckResults, log_writable : BOOLEAN,
     handler_writable : BOOLEAN, stdout_ok : BOOLEAN]

\* sum(1 for status in health_checks.values() if status == 'HEALTHY')
HealthyCount(health_checks) ==
    Cardinality({k \in DOMAIN health_checks : health_checks[k] = "HEALTHY"})

\* if healthy_count == total_checks ... elif healthy_count >= total_checks // 2
OverallStatus(health_checks) ==
    LET healthy_count == HealthyCount(health_checks)
        total_checks == Cardinality(DOMAIN health_checks)
    IN IF healthy_count = total_checks THEN "HEALTHY"
       ELSE IF healthy_count >= total_checks \div 2 THEN "DEGRADED"
       ELSE "UNHEALTHY"

\* "<timestamp> CRM is <overall_status> (<healthy_count>/<total_checks>) ..."
HeartbeatLine(health_checks) ==
    [line |-> "status", overall_status |-> OverallStatus(health_checks),
     healthy_count |-> HealthyCount(health_checks)]

\* "<timestamp> CRM heartbeat failed: ..."
HeartbeatFailedLine == [line |-> "failed"]

\* the except clause: one more write to the log, outside any try, and a print
HeartbeatExcept(log, env) ==
    IF ~ env.handler_writable
    THEN [log |-> log, raised |-> TRUE]
    ELSE [log |-> Append(log, HeartbeatFailedLine),
          raised |-> ~ env.stdout_ok]

\* the body of log_crm_heartbeat: the try with its write and its print, and
\* the except clause when either raises
HeartbeatBody(log, env) ==
    IF ~ env.log_writable
    THEN HeartbeatExcept(log, env)
    ELSE IF ~ env.stdout_ok
    THEN HeartbeatExcept(Append(log, HeartbeatLine(env.checks)), env)
    ELSE [log |-> Append(log, HeartbeatLine(env.checks)), raised |-> FALSE]

HeartbeatInit ==
    /\ customers = {}
    /\ products = {}
    /\ orders = {}
    /\ orderItems = {}
    /\ call = [op |-> "none"]
    /\ resp = [log |-> <<>>]
    /\ pre = <<>>
    /\ procs = [p \in Procs |-> IdleProc]

log_crm_heartbeat ==
    /\ Len(resp.log) < MaxLogLines
    /\ \E env \in HeartbeatEnvs :
          LET r == HeartbeatBody(resp.log, env)
          IN /\ call' = [op |-> "log_crm_heartbeat", input |-> env]
             /\ pre' = resp.log
             /\ resp' = [log |-> r.log, raised |-> r.raised,
                         overall_status |-> OverallStatus(env.checks)]
    /\ UNCHANGED <<customers, products, orders, orderItems, procs>>

NextHeartbeat == log_crm_heartbeat

HeartbeatSpec == HeartbeatInit /\ [][NextHeartbeat]_vars


----------------------------------------------------------------------------
(* Properties of createOrder *)

IsCall(op) == call.op = op

NewOrders == orders \ pre.orders
NewItems == orderItems \ pre.orderItems

IdExistedBefore(id) == \E p \in pre.products : p.id = id
PriceBefore(id) == (CHOOSE p \in pre.products : p.id = id).price
CustomerExistedBefore == \E c \in pre.customers : c.id = call.input.customer_id
SomeIdInvalid ==
    \E k \in 1 .. Len(call.input.product_ids) :
        ~ IdExistedBefore(call.input.product_ids[k])
NothingPersistedForOrder == orders = pre.orders /\ orderItems = pre.orderItems

\* C1: after any createOrder call, either a new Order is persisted together
\* with one OrderItem per input product id, or no new Order and no new
\* OrderItem is persisted; and at all times every OrderItem belongs to a
\* persisted Order and every Order has its items.
C1_OrderAllOrNothing ==
    /\ \A it \in orderItems : \E o \in orders : o.id = it.order
    /\ \A o \in orders : \E it \in orderItems : it.order = o.id
    /\ IsCall("createOrder") =>
        \/ NewOrders = {} /\ NewItems = {}
        \/ \E o \in NewOrders :
              /\ NewOrders = {o}
              /\ \A it \in NewItems : it.order = o.id
              /\ Cardinality(NewItems) = Len(call.input.product_ids)
              /\ \A k \in 1 .. Len(call.input.product_ids) :
                    \E it \in NewItems : it.product = call.input.product_ids[k]

\* a createOrder whose list repeats a valid id: the second OrderItem was
\* refused after the Order and the first OrderItem were written
C1_Witness ==
    /\ IsCall("createOrder")
    /\ CustomerExistedBefore
    /\ Len(call.input.product_ids) = 2
    /\ call.input.product_ids[1] = call.input.product_ids[2]
    /\ ~ SomeIdInvalid
    /\ resp.success = FALSE
    /\ NothingPersistedForOrder

\* C2: a createOrder call whose list holds an id of no existing product
\* returns success = false and leaves Orders and OrderItems as they were.
C2_InvalidIdPersistsNothing ==
    (IsCall("createOrder") /\ SomeIdInvalid) =>
        /\ resp.success = FALSE
        /\ NothingPersistedForOrder

\* an existing customer, a list with a valid id first and an invalid id after
C2_Witness ==
    /\ IsCall("createOrder")
    /\ CustomerExistedBefore
    /\ Len(call.input.product_ids) = 2
    /\ IdExistedBefore(call.input.product_ids[1])
    /\ ~ IdExistedBefore(call.input.product_ids[2])
    /\ resp.success = FALSE
    /\ NothingPersistedForOrder

\* C3: a successful createOrder persists exactly one Order, for the given
\* customer, whose total_amount is the sum of the listed products' prices, and
\* exactly one OrderItem per listed product, with quantity 1 and the
\* product's price as unit_price.
C3_SuccessfulOrder ==
    (IsCall("createOrder") /\ resp.success) =>
        LET ids == call.input.product_ids
            price == [i \in {ids[k] : k \in 1 .. Len(ids)} |-> PriceBefore(i)]
        IN /\ CustomerExistedBefore
           /\ \A j, k \in 1 .. Len(ids) : ids[j] = ids[k] => j = k
           /\ \E o \in NewOrders :
                 /\ NewOrders = {o}
                 /\ resp.order = Some(o)
                 /\ o.customer = call.input.customer_id
                 /\ o.total_amount = SumOver(price, ids)
                 /\ Cardinality(NewItems) = Len(ids)
                 /\ \A k \in 1 .. Len(ids) :
                       \E it \in NewItems :
                          /\ it.order = o.id
                          /\ it.product = ids[k]
                          /\ it.quantity = 1
                          /\ it.unit_price = price[ids[k]]

\* a successful order of two products with different prices
C3_Witness ==
    /\ IsCall("createOrder")
    /\ resp.success
    /\ Len(call.input.product_ids) = 2
    /\ PriceBefore(call.input.product_ids[1]) # PriceBefore(call.input.product_ids[2])
    /\ Cardinality(NewItems) = 2

\* C4: in every reachable state every persisted Order's total_amount is the
\* sum over its OrderItems of unit_price x quantity.
C4_TotalIsSumOfItems ==
    \A o \in orders :
        o.total_amount = SumSet({it \in orderItems : it.order = o.id})

\* an order of two items is in the tables, and a createOrder that came after
\* it has failed
C4_Witness ==
    /\ \E o \in pre.orders : Cardinality({it \in orderItems : it.order = o.id}) = 2
    /\ IsCall("createOrder")
    /\ resp.success = FALSE

C6_PreconditionOrder ==
    IsCall("createOrder") =>
        /\ ~ CustomerExistedBefore =>
              /\ resp.success = FALSE
              /\ resp.errors = <<[error |-> "CustomerDoesNotExist",
                                  id |-> call.input.customer_id]>>
              /\ NothingPersistedForOrder
        /\ (CustomerExistedBefore /\ call.input.product_ids = <<>>) =>
              /\ resp.success = FALSE
              /\ resp.errors = <<[error |-> "NoProducts"]>>
              /\ NothingPersistedForOrder
        /\ (CustomerExistedBefore /\ call.input.product_ids # <<>> /\ SomeIdInvalid) =>
              /\ resp.success = FALSE
              /\ Len(resp.errors) = 1
              /\ resp.errors[1].error = "InvalidProductIDs"
              /\ NothingPersistedForOrder

\* a missing customer with an empty product list: the customer is reported
C6_Witness ==
    /\ IsCall("createOrder")
    /\ ~ CustomerExistedBefore
    /\ call.input.product_ids = <<>>
    /\ resp.errors[1].error = "CustomerDoesNotExist"

----------------------------------------------------------------------------
(* Properties of createCustomer and of the responses *)

EmailStoredBefore(email) == \E c \in pre.customers : c.email = email

\* C7: createCustomer with the email of a stored customer returns
\* success = false and no customer, and leaves the customers as they were.
C7_DuplicateEmailRejected ==
    (IsCall("createCustomer") /\ EmailStoredBefore(call.input.email)) =>
        /\ resp.success = FALSE
        /\ resp.customer = None
        /\ customers = pre.customers

\* the email is stored and the phone is acceptable: the email alone refuses
C7_Witness ==
    /\ IsCall("createCustomer")
    /\ EmailStoredBefore(call.input.email)
    /\ validate_phone_format(call.input.phone)
    /\ resp.success = FALSE
    /\ customers = pre.customers

\* C8: under every interleaving of createCustomer and bulkCreateCustomers
\* requests no two committed customers have the same email, and every request
\* that is over has returned a structured result: a createCustomer that did
\* not insert its row has success = false, no customer and an error, and a
\* bulkCreateCustomers has a customer or an error for each of its rows.
C8_UniqueEmailsUnderRaces ==
    /\ \A c, d \in customers : c.email = d.email => c = d
    /\ \A p \in Procs :
          procs[p].pc = "done" =>
             LET me == procs[p]
             IN /\ ~ Raised(me.result)
                /\ me.kind = "single" =>
                      IF me.result.success
                      THEN /\ Len(me.result.customer) = 1
                           /\ me.result.customer[1] \in customers
                           /\ me.result.customer[1].email = me.input.email
                      ELSE /\ me.result.customer = None
                           /\ Len(me.result.errors) >= 1
                /\ me.kind = "bulk" =>
                      \A i \in 1 .. Len(me.rows) :
                         \/ \E k \in 1 .. Len(me.result.errors) :
                               me.result.errors[k].row = i
                         \/ \E k \in 1 .. Len(me.result.customers) :
                               me.result.customers[k].email = me.rows[i].email

\* a createCustomer passed both lookups, then lost the INSERT to a request
\* that committed the same email in between
C8_Witness ==
    \E p \in Procs :
        /\ procs[p].pc = "done"
        /\ procs[p].kind = "single"
        /\ procs[p].result.success = FALSE
        /\ procs[p].result.errors = <<[error |-> "IntegrityError"]>>
        /\ \E c \in customers : c.email = procs[p].input.email

\* C9: a createCustomer, createProduct or createOrder response with
\* success = false has no entity, an updateLowStockProducts response with
\* success = false has an empty updated_products, and a response with
\* success = true carries an entity that is persisted.
C9_EntityFollowsSuccess ==
    /\ IsCall("createCustomer") =>
          IF resp.success
          THEN Len(resp.customer) = 1 /\ resp.customer[1] \in customers
          ELSE resp.customer = None
    /\ IsCall("createProduct") =>
          IF resp.success
          THEN Len(resp.product) = 1 /\ resp.product[1] \in products
          ELSE resp.product = None
    /\ IsCall("createOrder") =>
          IF resp.success
          THEN Len(resp.order) = 1 /\ resp.order[1] \in orders
          ELSE resp.order = None
    /\ IsCall("updateLowStockProducts") =>
          IF resp.success
          THEN \A k \in 1 .. Len(resp.updated_products) :
                  resp.updated_products[k] \in products
          ELSE resp.updated_products = <<>>

\* updateLowStockProducts failed on a later product after it had saved an
\* earlier one: the response lists no product
C9_Witness ==
    /\ IsCall("updateLowStockProducts")
    /\ resp.success = FALSE
    /\ resp.updated_products = <<>>
    /\ products # pre.products

----------------------------------------------------------------------------
(* Properties of the error handling *)

\* C10: every mutation ends by returning a structured result, whatever fails
\* in it; no exception leaves the operation.
C10_NoExceptionEscapes == ~ Raised(resp)

----------------------------------------------------------------------------
(* Properties of bulkCreateCustomers *)

BulkDone(p) == procs[p].pc = "done" /\ procs[p].kind = "bulk"

RowHasError(errors, i) == \E k \in 1 .. Len(errors) : errors[k].row = i

RowErrorOf(errors, i) ==
    (CHOOSE k \in 1 .. Len(errors) : errors[k].row = i)

\* the indices of the rows that no error names, in input order
RowsWithoutError(rows, errors) ==
    SelectSeq([i \in 1 .. Len(rows) |-> i], LAMBDA i : ~ RowHasError(errors, i))

\* a row that full_clean and the phone test accept
RowWellFormed(row) ==
    /\ row.name # ""
    /\ EmailValidator(row.email)
    /\ validate_phone_format(row.phone)

\* C11: a bulkCreateCustomers request that is over has given each row, in
\* input order, exactly one outcome, its customer or one error with its
\* 1-based index, so the customers and the errors together number the rows;
\* and a well-formed row whose email no earlier row of the call and no
\* customer of another origin has is refused only when its own INSERT is.
C11_EveryRowOneOutcome ==
    \A p \in Procs :
        BulkDone(p) =>
            LET rows == procs[p].rows
                res == procs[p].result
                ok == RowsWithoutError(rows, res.errors)
            IN /\ Len(res.customers) + Len(res.errors) = Len(rows)
               /\ \A j, k \in 1 .. Len(res.errors) :
                     j < k => res.errors[j].row < res.errors[k].row
               /\ Len(ok) = Len(res.customers)
               /\ \A k \in 1 .. Len(ok) :
                     res.customers[k].email = rows[ok[k]].email
               /\ \A j \in 1 .. Len(rows) :
                     (/\ RowWellFormed(rows[j])
                      /\ \A i \in 1 .. j - 1 : rows[i].email # rows[j].email
                      /\ \A c \in customers :
                            c.email = rows[j].email =>
                               \E k \in 1 .. Len(res.customers) :
                                  res.customers[k] = c
                      /\ RowHasError(res.errors, j))
                     => res.errors[RowErrorOf(res.errors, j)].error
                           = "IntegrityError"

SameEmailEarlier(rows, j) == {i \in 1 .. j - 1 : rows[i].email = rows[j].email}

\* C12 as claimed: in a bulkCreateCustomers call every row with the email of
\* any earlier row of the call has a row-indexed error and no customer, and
\* the call creates at most one customer per email.
C12_Original ==
    IsCall("bulkCreateCustomers") =>
        LET rows == call.input
        IN /\ \A j \in 1 .. Len(rows) :
                 SameEmailEarlier(rows, j) # {} => RowHasError(resp.errors, j)
           /\ Len(RowsWithoutError(rows, resp.errors)) = Len(resp.customers)
           /\ Cardinality(customers \ pre.customers) = Len(resp.customers)
           /\ \A c, d \in customers \ pre.customers : c.email = d.email => c = d

\* C12 amended: in a bulkCreateCustomers call every row with the email of an
\* earlier row of the call that was created has the row-indexed error of a
\* duplicate and no customer, and the call creates at most one customer per
\* email.
C12_DuplicateOfCreatedRowRejected ==
    IsCall("bulkCreateCustomers") =>
        LET rows == call.input
        IN /\ \A j \in 1 .. Len(rows) :
                 (\E i \in SameEmailEarlier(rows, j) :
                     ~ RowHasError(resp.errors, i))
                 => /\ RowHasError(resp.errors, j)
                    /\ resp.errors[RowErrorOf(resp.errors, j)].error
                          = "Duplicated"
           /\ Len(RowsWithoutError(rows, resp.errors)) = Len(resp.customers)
           /\ Cardinality(customers \ pre.customers) = Len(resp.customers)
           /\ \A c, d \in customers \ pre.customers : c.email = d.email => c = d

\* two rows with one email: the first was created, the second refused
C12_Witness ==
    /\ IsCall("bulkCreateCustomers")
    /\ Len(call.input) = 2
    /\ call.input[1].email = call.input[2].email
    /\ Len(resp.customers) = 1
    /\ resp.customers[1] \in customers \ pre.customers
    /\ resp.errors = <<RowError(2, "Duplicated")>>

----------------------------------------------------------------------------
(* Properties of updateLowStockProducts *)

\* the products that were below 10 when the call started, as they are now
RestockedNow == {q \in products : \E p \in pre.products : p.id = q.id /\ p.stock < 10}

\* C13: a successful updateLowStockProducts with an amount a > 0 has added
\* exactly a to the stock of each product that was below 10 when the call
\* started, has left every other product, one at exactly 10 included, as it
\* was, and returns exactly the products it updated, none when none was
\* below 10.
C13_RestockBelowThreshold ==
    (IsCall("updateLowStockProducts") /\ resp.success /\ call.input > 0) =>
        /\ Cardinality(products) = Cardinality(pre.products)
        /\ \A p \in pre.products :
              IF p.stock < 10
              THEN [p EXCEPT !.stock = @ + call.input] \in products
              ELSE p \in products
        /\ {resp.updated_products[k] : k \in 1 .. Len(resp.updated_products)}
              = RestockedNow
        /\ Len(resp.updated_products) = Cardinality(RestockedNow)

\* one product at exactly 10 was left alone while another was restocked
C13_Witness ==
    /\ IsCall("updateLowStockProducts")
    /\ resp.success
    /\ call.input > 0
    /\ \E p \in pre.products : p.stock = 10 /\ p \in products
    /\ Len(resp.updated_products) = 1
    /\ products # pre.products

\* C14: updateLowStockProducts with an amount <= 0 returns success = false
\* and no updated product, and leaves every product as it was.
C14_NonPositiveAmountRejected ==
    (IsCall("updateLowStockProducts") /\ call.input <= 0) =>
        /\ resp.success = FALSE
        /\ resp.updated_products = <<>>
        /\ products = pre.products

\* the amount is 0 and a product is below 10
C14_Witness ==
    /\ IsCall("updateLowStockProducts")
    /\ call.input = 0
    /\ \E p \in pre.products : p.stock < 10
    /\ resp.success = FALSE
    /\ products = pre.products

----------------------------------------------------------------------------
(* Properties of the products *)

\* C16: in every reachable state every persisted product has a price above 0
\* and a stock of 0 or more.
C16_PriceAndStockInRange ==
    \A p \in products : p.price > 0 /\ p.stock >= 0

\* a negative amount was offered while a product had no stock at all
C16_Witness ==
    /\ IsCall("updateLowStockProducts")
    /\ call.input < 0
    /\ \E p \in products : p.stock = 0

NameStoredBefore(name) == \E p \in pre.products : p.name = name

\* C17: createProduct with a price <= 0 or a given stock < 0 returns
\* success = false and no product and persists none; with a price above 0,
\* no stock given and a name that is not empty and not in use it persists the
\* product with stock 0.
C17_CreateProductValidation ==
    IsCall("createProduct") =>
        LET input == call.input
        IN /\ (input.price <= 0 \/ (input.stock # None /\ input.stock[1] < 0)) =>
                 /\ resp.success = FALSE
                 /\ resp.product = None
                 /\ products = pre.products
           /\ (/\ input.price > 0
               /\ input.stock = None
               /\ input.name # ""
               /\ ~ NameStoredBefore(input.name)) =>
                 /\ resp.success
                 /\ \E p \in products \ pre.products :
                       /\ resp.product = Some(p)
                       /\ p.name = input.name
                       /\ p.price = input.price
                       /\ p.stock = 0

\* C18: no two persisted products share a name: a createProduct whose name
\* is in use returns success = false and no product and persists nothing,
\* while one whose name is free, with a price of two hundredths or more and a
\* stock in range, succeeds.
C18_ProductNameUnique ==
    /\ \A p, q \in products : p.name = q.name => p = q
    /\ IsCall("createProduct") =>
          LET input == call.input
              stock == IF input.stock # None THEN input.stock[1] ELSE 0
          IN IF NameStoredBefore(input.name)
             THEN /\ resp.success = FALSE
                  /\ resp.product = None
                  /\ products = pre.products
             ELSE (input.name # "" /\ input.price > 1 /\ stock >= 0) =>
                     /\ resp.success
                     /\ Cardinality(products) = Cardinality(pre.products) + 1

\* a second createProduct with a name in use, its price and stock acceptable
C18_Witness ==
    /\ IsCall("createProduct")
    /\ NameStoredBefore(call.input.name)
    /\ call.input.price > 1
    /\ call.input.stock # Some(-1)
    /\ resp.success = FALSE
    /\ products = pre.products

----------------------------------------------------------------------------
(* Properties of validate_phone_format *)

\* '+' and 10 to 15 digits, or digits in groups of 3, 3 and 4 with '-' between
ClaimedPhoneFormat(s) ==
    \/ /\ Len(s) \in 11 .. 16
       /\ s[1] = "+"
       /\ \A i \in 2 .. Len(s) : s[i] \in Digits
    \/ /\ Len(s) = 12
       /\ \A i \in 1 .. 12 : IF i \in {4, 8} THEN s[i] = "-" ELSE s[i] \in Digits

\* C19: validate_phone_format returns true for the empty phone and for
\* exactly the strings that are '+' and 10 to 15 digits or digit groups of
\* 3, 3 and 4 separated by '-', and false for every other string.
C19_PhoneFormatExact ==
    IsCall("validate_phone_format") =>
        resp.result = (call.input = <<>> \/ ClaimedPhoneFormat(call.input))

----------------------------------------------------------------------------
(* Properties of the order items *)

\* C20: no operation changes or removes an OrderItem that is persisted: its
\* unit_price and quantity stay what they were when its order was created.
C20_OrderItemsFrozen ==
    [][\A it \in orderItems : it \in orderItems']_vars

\* a second order of a product was created after the first, and a product
\* has been restocked: the item of the first order is as it was
C20_Witness ==
    /\ IsCall("createOrder")
    /\ resp.success
    /\ \E it \in pre.orderItems :
          /\ it \in orderItems
          /\ \E new \in NewItems : new.product = it.product
          /\ \E p \in products : p.id = it.product /\ p.stock >= 10

----------------------------------------------------------------------------
(* Properties of filteredProducts *)

\* every predicate the filter supplies holds of the product
SatisfiesFilter(p, f) ==
    /\ f.name_icontains # None => NameIContains(p.name, f.name_icontains[1])
    /\ f.price_gte # None => p.price >= f.price_gte[1]
    /\ f.price_lte # None => p.price <= f.price_lte[1]
    /\ f.stock_gte # None => p.stock >= f.stock_gte[1]
    /\ f.stock_lte # None => p.stock <= f.stock_lte[1]
    /\ f.low_stock = Some(TRUE) => p.stock < 10

\* C21: filteredProducts returns exactly the products that satisfy every
\* predicate the filter supplies, a bound of 0 included, and all products
\* when no filter is given.
C21_FilterExact ==
    IsCall("filteredProducts") =>
        resp.products =
            IF call.input = None THEN products
            ELSE {p \in products : SatisfiesFilter(p, call.input[1])}

----------------------------------------------------------------------------
(* Properties of the order of the tests of createCustomer *)

\* C22: createCustomer tests the phone before the email: for an input with a
\* phone that is not empty and that the format test refuses, and an email
\* that is stored, the response carries the phone-format error alone, and
\* the customers are as they were.
C22_PhoneBeforeEmail ==
    (/\ IsCall("createCustomer")
     /\ call.input.phone # <<>>
     /\ ~ validate_phone_format(call.input.phone)
     /\ EmailStoredBefore(call.input.email)) =>
        /\ resp.success = FALSE
        /\ resp.customer = None
        /\ resp.errors = <<[error |-> "PhoneFormat"]>>
        /\ customers = pre.customers

\* a phone of five digits with an email that is stored
C22_Witness ==
    /\ IsCall("createCustomer")
    /\ call.input.phone = PhoneShort
    /\ EmailStoredBefore(call.input.email)
    /\ resp.errors = <<[error |-> "PhoneFormat"]>>

----------------------------------------------------------------------------
(* Properties of the date of an order *)

\* C23: the Order a successful createOrder persists has the order_date the
\* input gives, and the time of its creation when the input gives none.
C23_OrderDateAsGiven ==
    (IsCall("createOrder") /\ resp.success) =>
        \A o \in NewOrders :
            o.order_date = IF call.input.order_date # None
                           THEN call.input.order_date[1]
                           ELSE Now

----------------------------------------------------------------------------
(* Properties of what bulkCreateCustomers reports *)

\* C24: when a bulkCreateCustomers request is over, every customer its result
\* reports is in storage, also when the INSERT of a row was refused after
\* earlier rows of the call were saved in the same transaction.
C24_ReportedAreStored ==
    \A p \in Procs :
        BulkDone(p) =>
            \A k \in 1 .. Len(procs[p].result.customers) :
                procs[p].result.customers[k] \in customers

----------------------------------------------------------------------------
(* Properties of concurrent restocks *)

StockOf(prods, id) == (CHOOSE q \in prods : q.id = id).stock

RestockCommitsNow(p) ==
    /\ procs[p].kind = "restock"
    /\ procs[p].pc = "commit"
    /\ procs'[p].pc = "done"

\* C25: two updateLowStockProducts requests at once end as they would one
\* after the other: each restock that commits leaves every product it
\* updated with the stock the storage held just before, plus its amount, so
\* no increment committed in between is lost (3 restocked twice by 5 is 13).
C25_NoLostIncrement ==
    [][\A p \in Procs :
          RestockCommitsNow(p) =>
              \A w \in procs[p].written :
                  StockOf(products', w.id)
                      = StockOf(products, w.id) + procs[p].amount]_vars

----------------------------------------------------------------------------
(* Properties of a restock followed by another *)

\* what an updateLowStockProducts with this amount would do in this state
NextRestockOf(restock_amount) ==
    UpdateLowStockProductsMutate(DB, restock_amount, TRUE)

RestockSucceeded == IsCall("updateLowStockProducts") /\ resp.success

\* C26: after a successful updateLowStockProducts with an amount of 10 or
\* more no product in storage has a stock below 10, so the call that follows
\* it at once changes no stock and reports no product; after one with a
\* smaller amount a product that is still below 10 is restocked again by the
\* call that follows.
C26_RestockSettles ==
    /\ (RestockSucceeded /\ call.input >= 10) =>
          /\ \A p \in products : p.stock >= LowStockThreshold
          /\ \A restock_amount \in HistoryRestockInputs :
                /\ NextRestockOf(restock_amount).db = DB
                /\ NextRestockOf(restock_amount).resp.updated_products = <<>>
    /\ (RestockSucceeded /\ call.input < 10) =>
          \A p \in products :
              p.stock < LowStockThreshold =>
                  \A restock_amount \in HistoryRestockInputs :
                      ~ RestockAmountRejected(restock_amount) =>
                          LET q == [p EXCEPT !.stock = @ + restock_amount]
                              r == NextRestockOf(restock_amount)
                          IN /\ q \in r.db.products
                             /\ \E k \in 1 .. Len(r.resp.updated_products) :
                                   r.resp.updated_products[k] = q

\* a restock by 10 that found two products below 10 and left none
C26_Witness ==
    /\ RestockSucceeded
    /\ call.input >= 10
    /\ Len(resp.updated_products) = 2
    /\ \E p \in pre.products : p.stock > 0 /\ p.stock < LowStockThreshold

----------------------------------------------------------------------------
(* Properties of what createOrder leaves alone *)

\* C27: a createOrder, whether it succeeds or fails, leaves every product
\* (its stock, price and name) and the set of customers as they were; and no
\* operation at all lowers the stock of a product or removes a product.
C27_OrdersLeaveStock ==
    [][/\ call'.op = "createOrder" =>
              /\ products' = products
              /\ customers' = customers
       /\ \A p \in products :
              \E q \in products' : q.id = p.id /\ q.stock >= p.stock]_vars

\* an order was created for a product that has units in stock
C27_Witness ==
    /\ IsCall("createOrder")
    /\ resp.success
    /\ \E it \in NewItems :
          \E p \in products : p.id = it.product /\ p.stock > 0
    /\ products = pre.products
    /\ customers = pre.customers

----------------------------------------------------------------------------
(* Properties of the heartbeat *)

ClaimedStatus(health_checks) ==
    LET n == Cardinality({k \in {"graphql_gql", "graphql_rest",
                                 "database", "cache"} :
                             health_checks[k] = "HEALTHY"})
    IN CASE n = 4 -> "HEALTHY"
         [] n \in {2, 3} -> "DEGRADED"
         [] n <= 1 -> "UNHEALTHY"

\* the first half of C28: the status is HEALTHY exactly when all four checks
\* return 'HEALTHY', DEGRADED when two or three do, UNHEALTHY otherwise
HeartbeatStatusAsClaimed ==
    IsCall("log_crm_heartbeat") =>
        resp.overall_status = ClaimedStatus(call.input.checks)

\* C28: log_crm_heartbeat reports HEALTHY exactly when all four checks return
\* 'HEALTHY', DEGRADED when two or three do and UNHEALTHY when at most one
\* does; and every invocation appends exactly one line to the heartbeat log,
\* whether it runs through or an exception occurs in it.
C28_HeartbeatOneLine ==
    /\ HeartbeatStatusAsClaimed
    /\ IsCall("log_crm_heartbeat") =>
           /\ Len(resp.log) = Len(pre) + 1
           /\ SubSeq(resp.log, 1, Len(pre)) = pre

====
